---- MODULE Spec2Model ----
(***************************************************************************)
(* Model of the image-sharpener front end: the browser capability         *)
(* detector (browserCapabilities), the fallback-aware encoder              *)
(* (encodeCanvas), the concurrency limiter (mapWithConcurrency) and the    *)
(* batch operations on the queue (handleFiles, reprocessAll,               *)
(* reprocessFailedOnly, remove).                                           *)
(*                                                                         *)
(* The program is single-threaded: a handler runs without interruption     *)
(* from one host completion (img.decode, canvas.toBlob, a user event) to   *)
(* its next await of a host operation, so each action below is one such    *)
(* run-to-completion segment, promise continuations included.              *)
(***************************************************************************)
EXTENDS Integers, Sequences, FiniteSets, TLC

(***************************************************************************)
(* Bounds of the model.                                                    *)
(***************************************************************************)
\* files of one submit
MaxFiles == 2
\* items created over a run
MaxItems == 2
\* processed object URLs created per image: no reprocess pass starts once
\* an image has had MaxHandles of them
MaxHandles == 2
\* batch operations in flight together
MaxOps == 2
\* navigator.hardwareConcurrency ranges over 0..MaxHW
MaxHW == 1
\* the user selects among the first MaxFormats formats of FormatOrder
MaxFormats == 2
\* callers of detectSupport in the detector's own specification
MaxCallers == 3
\* items and limit of the limiter's own specification
MaxN == 3

None == "none"
\* an optional object: undefined is <<>>, a value x is <<x>>
Undefined == <<>>
Some(x) == <<x>>

Min(a, b) == IF a < b THEN a ELSE b
Max(a, b) == IF a > b THEN a ELSE b

(***************************************************************************)
(* Formats.                                                                *)
(***************************************************************************)
OutputFormat == {"webp", "jpeg", "png", "avif"}

getMimeType(format) ==
  IF format = "webp" THEN "image/webp"
  ELSE IF format = "jpeg" THEN "image/jpeg"
  ELSE IF format = "png" THEN "image/png"
  ELSE "image/avif"

getExtension(format) == IF format = "jpeg" THEN "jpg" ELSE format

MimeTypes == {getMimeType(f) : f \in OutputFormat}

\* the formats the user selects in the application's specification
FormatOrder == <<"avif", "jpeg", "webp", "png">>
Selectable == {FormatOrder[j] : j \in 1..Min(MaxFormats, Len(FormatOrder))}

\* Math.min(6, Math.max(1, navigator.hardwareConcurrency || 4))
DEFAULT_CONCURRENCY(hw) == Min(6, Max(1, IF hw = 0 THEN 4 ELSE hw))

(***************************************************************************)
(* BrowserCapabilityDetector.  A detector record d holds                   *)
(*   supportCache      the field of line 29 (Undefined is null)            *)
(*   detectionPromise  "null", "pending" or "resolved" (line 30)           *)
(*   value             what the promise resolved with                      *)
(*   avif, webp        the two single-format probes: "idle", "pending"     *)
(*                     (toBlob asked, not answered), "yes", "no"           *)
(*   probes            how many times performDetection has run             *)
(***************************************************************************)
\* What canvas.toBlob can answer a probe: a blob of the type asked, a blob of
\* image/png, null, or an exception.
ProbeOutcomes(type) == {type, "image/png", "null", "raise"}

\* checkAVIFSupport / checkWebPSupport, lines 49-57: the verdict on an answer
checkSupport(type, outcome) ==
  IF outcome = "raise" THEN FALSE
  ELSE outcome # "null" /\ outcome = type

\* lines 113-118
FormatSupport(avif, webp) == [avif |-> avif, webp |-> webp, jpeg |-> TRUE, png |-> TRUE]

Snapshots == {FormatSupport(a, w) : a \in BOOLEAN, w \in BOOLEAN}

NewDetector ==
  [supportCache |-> Undefined, detectionPromise |-> "null", value |-> Undefined,
   avif |-> "idle", webp |-> "idle", probes |-> 0]

\* lines 38-42 and 65-69: a probe without a 2D context answers false at once
CheckStart(hasCtx) == IF hasCtx THEN "pending" ELSE "no"

Verdict(type, outcome) == IF checkSupport(type, outcome) THEN "yes" ELSE "no"

\* line 89
CacheHit(supportCache) == supportCache # Undefined

\* a detector that never notices the probe in flight
InFlightNever(detectionPromise) == FALSE

\* line 94
InFlight(detectionPromise) == detectionPromise # "null"

\* a detector that caches the pessimistic record instead of the probe's
CachedDefault(result) == FormatSupport(FALSE, FALSE)

\* line 100: what is stored in supportCache once the promise resolves
CachedValue(result) == result

\* lines 107-111, up to the two toBlob requests
performDetection(d, ctxA, ctxW) ==
  [d EXCEPT !.detectionPromise = "pending", !.value = Undefined,
            !.avif = CheckStart(ctxA), !.webp = CheckStart(ctxW),
            !.probes = @ + 1]

\* lines 113-118 and 100: both probes answered, the promise resolves and the
\* first caller's continuation fills the cache
Resolve(d) ==
  IF d.detectionPromise = "pending" /\ d.avif \in {"yes", "no"} /\ d.webp \in {"yes", "no"}
  THEN LET result == FormatSupport(d.avif = "yes", d.webp = "yes")
       IN [d EXCEPT !.detectionPromise = "resolved", !.value = Some(result),
                    !.supportCache = Some(CachedValue(result))]
  ELSE d

\* lines 87-99: the synchronous part of a detectSupport call
detectSupport(d, ctxA, ctxW) ==
  IF CacheHit(d.supportCache) THEN d
  ELSE IF InFlight(d.detectionPromise) THEN d
  ELSE Resolve(performDetection(d, ctxA, ctxW))

\* a detector in which a failing probe marks both probed formats unsupported
ProbeAnsweredBoth(d, f, outcome) ==
  Resolve(IF checkSupport(getMimeType(f), outcome)
          THEN [d EXCEPT ![f] = "yes"]
          ELSE [d EXCEPT !.avif = "no", !.webp = "no"])

\* a toBlob answer to the probe of format f ("avif" or "webp")
ProbeAnswered(d, f, outcome) == Resolve([d EXCEPT ![f] = Verdict(getMimeType(f), outcome)])

isFormatSupported(support, format) == support[format]

\* a fallback chain that goes from avif straight to jpeg
getBestFallbackFormatBaseline(support, requestedFormat) ==
  IF support[requestedFormat] THEN requestedFormat
  ELSE IF requestedFormat = "avif" THEN "jpeg"
  ELSE IF requestedFormat = "webp" THEN "jpeg"
  ELSE requestedFormat

\* a fallback chain that does not look at support.webp
getBestFallbackFormatBlind(support, requestedFormat) ==
  IF support[requestedFormat] THEN requestedFormat
  ELSE IF requestedFormat = "avif" THEN "webp"
  ELSE IF requestedFormat = "webp" THEN "jpeg"
  ELSE requestedFormat

\* lines 146-166
getBestFallbackFormat(support, requestedFormat) ==
  IF support[requestedFormat] THEN requestedFormat
  ELSE IF requestedFormat = "avif" THEN (IF support.webp THEN "webp" ELSE "jpeg")
  ELSE IF requestedFormat = "webp" THEN "jpeg"
  ELSE requestedFormat

\* a format list that always advertises webp as the fallback of avif
getFormatInfoListStatic(support) ==
  <<[format |-> "webp", label |-> "WebP", supported |-> support.webp,
     fallbackInfo |-> IF support.webp THEN Undefined
                      ELSE Some([format |-> "jpeg", reason |-> "webp"])],
    [format |-> "jpeg", label |-> "JPEG", supported |-> support.jpeg,
     fallbackInfo |-> Undefined],
    [format |-> "png", label |-> "PNG", supported |-> support.png,
     fallbackInfo |-> Undefined],
    [format |-> "avif", label |-> "AVIF", supported |-> support.avif,
     fallbackInfo |-> IF support.avif THEN Undefined
                      ELSE Some([format |-> "webp", reason |-> "avif"])]>>

\* lines 171-206, after the await of detectSupport: the list built from the
\* record support (reason names the format the text is about)
getFormatInfoList(support) ==
  <<[format |-> "webp", label |-> "WebP", supported |-> support.webp,
     fallbackInfo |-> IF support.webp THEN Undefined
                      ELSE Some([format |-> "jpeg", reason |-> "webp"])],
    [format |-> "jpeg", label |-> "JPEG", supported |-> support.jpeg,
     fallbackInfo |-> Undefined],
    [format |-> "png", label |-> "PNG", supported |-> support.png,
     fallbackInfo |-> Undefined],
    [format |-> "avif", label |-> "AVIF", supported |-> support.avif,
     fallbackInfo |-> IF support.avif THEN Undefined
                      ELSE Some([format |-> IF support.webp THEN "webp" ELSE "jpeg",
                                 reason |-> "avif"])]>>

\* what getFormatInfoList returns to a caller whose detectSupport gave got
ListOf(got) == IF got = Undefined THEN Undefined ELSE Some(getFormatInfoList(got[1]))

(***************************************************************************)
(* encodeCanvas.  A pipeline record p is one invocation between two host   *)
(* completions:                                                            *)
(*   pc            "enc1" awaiting the first toBlob (line 125), "enc2" the *)
(*                 JPEG toBlob of the mismatch branch (line 137), "enc3"   *)
(*                 the JPEG toBlob of the catch block (line 166), "ok" a   *)
(*                 return, "throw" a rejection                             *)
(*   format        the requested format                                    *)
(*   actualFormat, usedFallback   the locals of lines 110-111, and on      *)
(*                 "ok" the returned fields                                *)
(*   blob          on "ok", the declared type of the returned blob         *)
(*   err           the error caught (line 158) or thrown; every error of   *)
(*                 encodeCanvas (lines 130, 153, 171, 183) is written      *)
(*                 "EncodeError", its message is not followed              *)
(*   reqs          the formats asked of canvas.toBlob so far, in order     *)
(***************************************************************************)
\* What canvas.toBlob(resolve, type, quality) can answer: a blob of the type
\* asked, a blob of image/png (the host's substitute for a type it does not
\* encode), null, or an exception.
EncoderOutcomes(type) == {type, "image/png", "null", "raise"}

Reason(kind, from, to) == [kind |-> kind, from |-> from, to |-> to]

\* an encodeCanvas that asks for the requested format first, whatever the
\* snapshot says
EncStartEager(support, format) ==
  [pc |-> "enc1", format |-> format, actualFormat |-> format,
   usedFallback |-> Undefined, blob |-> None, err |-> None,
   reqs |-> <<format>>]

\* lines 109-127: the format decision, then the first toBlob request
EncStart(support, format) ==
  LET isSupported  == isFormatSupported(support, format)
      actualFormat == IF isSupported THEN format
                      ELSE getBestFallbackFormat(support, format)
      usedFallback == IF isSupported THEN Undefined
                      ELSE Some([requestedFormat |-> format,
                                 reason |-> Reason("unsupported", format, actualFormat)])
  IN [pc |-> "enc1", format |-> format, actualFormat |-> actualFormat,
      usedFallback |-> usedFallback, blob |-> None, err |-> None,
      reqs |-> <<actualFormat>>]

\* the record both JPEG retries return (lines 142-149 and 174-181)
JpegReturn(p, blob) ==
  [p EXCEPT !.pc = "ok", !.blob = blob, !.actualFormat = "jpeg",
            !.usedFallback = Some([requestedFormat |-> p.format,
                                   reason |-> Reason("failed", p.actualFormat, "jpeg")])]

\* lines 158-168: the catch block, up to its toBlob request
EncCatch(p, err) ==
  IF p.actualFormat = "jpeg"
  THEN [p EXCEPT !.pc = "throw", !.err = err]
  ELSE [p EXCEPT !.pc = "enc3", !.err = err, !.reqs = Append(p.reqs, "jpeg")]

\* line 134: the verification of the first blob
TypeMatches(blobType, type) == blobType = type

\* lines 125-156: the first toBlob answered
Enc1(p, out) ==
  LET type == getMimeType(p.actualFormat) IN
  IF out = "raise" THEN EncCatch(p, "EncodeError")
  ELSE IF out = "null" THEN EncCatch(p, "EncodeError")
  ELSE IF ~TypeMatches(out, type)
       THEN IF p.actualFormat # "jpeg"
            THEN [p EXCEPT !.pc = "enc2", !.reqs = Append(p.reqs, "jpeg")]
            ELSE EncCatch(p, "EncodeError")
  ELSE [p EXCEPT !.pc = "ok", !.blob = out]

\* lines 137-153: the JPEG toBlob of the mismatch branch answered
Enc2(p, out) ==
  IF out = "raise" THEN EncCatch(p, "EncodeError")
  ELSE IF out # "null" /\ out = "image/jpeg" THEN JpegReturn(p, out)
  ELSE EncCatch(p, "EncodeError")

\* line 170: what the catch block's retry checks of its blob
RetryAccepts(out) == out # "null"

\* lines 166-184: the JPEG toBlob of the catch block answered
Enc3(p, out) ==
  IF out = "raise" THEN [p EXCEPT !.pc = "throw", !.err = "EncodeError"]
  ELSE IF ~RetryAccepts(out) THEN [p EXCEPT !.pc = "throw", !.err = "EncodeError"]
  ELSE JpegReturn(p, out)

EncStep(p, out) ==
  IF p.pc = "enc1" THEN Enc1(p, out)
  ELSE IF p.pc = "enc2" THEN Enc2(p, out)
  ELSE Enc3(p, out)

EncAwaiting(p) == p.pc \in {"enc1", "enc2", "enc3"}

\* the answers toBlob may give the request p awaits
Answers(p) == EncoderOutcomes(getMimeType(p.reqs[Len(p.reqs)]))

\* the whole of encodeCanvas, given the answers toBlob gives its requests in
\* order: how the invocation ends ("ok" or "throw")
RECURSIVE RunEnc(_, _)
RunEnc(p, outs) ==
  IF EncAwaiting(p) /\ outs # <<>>
  THEN RunEnc(EncStep(p, Head(outs)), Tail(outs))
  ELSE p

encodeCanvas(support, format, outs) == RunEnc(EncStart(support, format), outs)

\* every way an encodeCanvas(canvas, format, quality) can end under support
EncEndings(support, format) ==
  LET p0 == EncStart(support, format) IN
  {encodeCanvas(support, format, <<o1, o2, o3>>) :
     o1 \in Answers(p0), o2 \in EncoderOutcomes("image/jpeg"),
     o3 \in EncoderOutcomes("image/jpeg")}

(***************************************************************************)
(* mapWithConcurrency.  A limiter record m is one call:                    *)
(*   state      "idle" (not called), "running", "resolved", "rejected"     *)
(*   nextIndex  the shared counter of line 43                              *)
(*   results    the array of line 42, a function on the indices written    *)
(*   running    the indices whose worker has been started and not settled  *)
(*   invoked    the indices the worker was called with, in call order      *)
(***************************************************************************)
NewMap == [state |-> "idle", nextIndex |-> 0, results |-> <<>>,
           running |-> {}, invoked |-> <<>>]

\* a limiter that always starts at least one runner
parallelAtLeastOne(concurrency, len) == Max(1, Min(concurrency, len))

\* a limiter that starts one runner more than the limit allows
parallelPlusOne(concurrency, len) == Min(concurrency + 1, len)

\* a limiter that starts one runner per item, whatever the limit
parallelAll(concurrency, len) == len

\* line 51
parallel(concurrency, len) == Min(concurrency, len)

\* a runner that takes the index before the counter
ClaimIndexStale(nextIndex) == Max(0, nextIndex - 1)

\* line 46: the index a runner takes, and the counter after it
ClaimIndex(nextIndex) == nextIndex
AfterClaim(nextIndex) == nextIndex + 1

\* lines 46-48: a runner claims an index and, when it is in range, calls the
\* worker with it; len is items.length at that moment
RunnerClaim(m, len) ==
  LET current == ClaimIndex(m.nextIndex) IN
  IF current >= len
  THEN [m EXCEPT !.nextIndex = AfterClaim(m.nextIndex)]
  ELSE [m EXCEPT !.nextIndex = AfterClaim(m.nextIndex),
                 !.running = @ \cup {current},
                 !.invoked = Append(@, current)]

\* line 52: Array.from({length: parallel}, () => runner()), each runner
\* running to its first await
RECURSIVE MapSpawn(_, _, _)
MapSpawn(m, n, len) ==
  IF n <= 0 THEN m ELSE MapSpawn(RunnerClaim(m, len), n - 1, len)

\* results.length of the JavaScript array
ResultsLength(results) ==
  IF DOMAIN results = {} THEN 0
  ELSE (CHOOSE i \in DOMAIN results : \A j \in DOMAIN results : j <= i) + 1

\* a limiter that appends each result as it arrives (results.push)
StoreResultPush(results, current, res) ==
  [i \in (DOMAIN results) \cup {ResultsLength(results)} |->
     IF i = ResultsLength(results) THEN res ELSE results[i]]

\* line 48: results[current] = <the worker's result>
StoreResult(results, current, res) ==
  [i \in (DOMAIN results) \cup {current} |-> IF i = current THEN res ELSE results[i]]

\* line 52-53: Promise.all settles once no runner is left
MapSettle(m) ==
  IF m.state = "running" /\ m.running = {} THEN [m EXCEPT !.state = "resolved"] ELSE m

\* lines 42-52: the call, up to the first await of every runner
MapStart(len, concurrency) ==
  MapSettle(MapSpawn([NewMap EXCEPT !.state = "running"], parallel(concurrency, len), len))

\* a runner that stores its first result and ends without claiming again
RunnerResumeOnce(m, current, res, len) ==
  MapSettle([m EXCEPT !.results = StoreResult(@, current, res),
                      !.running = @ \ {current}])

\* lines 48 and 45-47: the worker of index current resolved with res; its
\* runner stores the result and claims again
RunnerResume(m, current, res, len) ==
  MapSettle(RunnerClaim([m EXCEPT !.results = StoreResult(@, current, res),
                                  !.running = @ \ {current}], len))

\* line 48: the worker of index current rejected; the await throws, the runner
\* ends and Promise.all rejects (the other runners go on)
RunnerThrow(m, current) ==
  [m EXCEPT !.running = @ \ {current},
            !.state = IF @ = "running" THEN "rejected" ELSE @]

(***************************************************************************)
(* State.                                                                  *)
(***************************************************************************)
VARIABLES
  det,            \* the singleton browserCapabilities (part_000 line 219)
  callers,        \* callers of detectSupport: [pc, first, waited, got, list]
  enc,            \* one encodeCanvas invocation, a pipeline record
  encSupport,     \* the FormatSupport snapshot that invocation saw
  encOuts,        \* the answers canvas.toBlob gave it, in order
  mItems,         \* items of one mapWithConcurrency call
  mLimit,         \* its concurrency argument
  m,              \* its limiter record
  mDone,          \* the indices whose worker has resolved, in completion order
  formatSelect,   \* formatSelect.value
  hw,             \* navigator.hardwareConcurrency
  queue,          \* the queue of line 74, as a sequence of image ids
  img,            \* the QueuedImage objects ever created, by id
  ops,            \* the batch operations in flight
  isReprocessing, \* the flag of line 75
  nfiles,         \* files handed to handleFiles so far
  unloaded        \* whether the page has been unloaded (beforeunload has run)

detVars == <<det, callers>>
encVars == <<enc, encSupport, encOuts>>
mapVars == <<mItems, mLimit, m, mDone>>
appVars == <<formatSelect, hw, queue, img, ops, isReprocessing, nfiles, unloaded>>
vars == <<det, callers, enc, encSupport, encOuts, mItems, mLimit, m, mDone,
          formatSelect, hw, queue, img, ops, isReprocessing, nfiles, unloaded>>

Callers == 1..MaxCallers

IdleCaller == [pc |-> "idle", first |-> FALSE, waited |-> FALSE, got |-> Undefined,
        list |-> ListOf(Undefined)]
IdlePipeline == [pc |-> "idle", format |-> None, actualFormat |-> None,
                 usedFallback |-> Undefined, blob |-> None, err |-> None,
                 reqs |-> <<>>]

\* the parts of the state a specification does not use stay as they are here
DetIdle == /\ det = NewDetector
           /\ callers = [c \in Callers |-> IdleCaller]
EncIdle == /\ enc = IdlePipeline
           /\ encSupport = FormatSupport(FALSE, FALSE)
           /\ encOuts = <<>>
MapIdle == /\ mItems = <<>>
           /\ mLimit = 0
           /\ m = NewMap
           /\ mDone = <<>>
AppIdle == /\ formatSelect = "webp"
           /\ hw = 0
           /\ queue = <<>>
           /\ img = <<>>
           /\ ops = <<>>
           /\ isReprocessing = FALSE
           /\ nfiles = 0
           /\ unloaded = FALSE

(***************************************************************************)
(* A caller is [pc, first, waited, got, list]: pc "idle", "waiting"        *)
(* (awaiting the promise) or "returned"; first, whether its call started   *)
(* the probe; waited, whether it had to await the promise; got, the record *)
(* returned; list, what getFormatInfoList makes of that record.            *)
(*                                                                         *)
(* The detector on its own: callers of detectSupport (directly or through  *)
(* isFormatSupported, getBestFallbackFormat, getFormatInfoList, which all  *)
(* begin with await this.detectSupport()) against the two probes.          *)
(***************************************************************************)
\* what a caller that called with the detector in state d (before) and d1
\* (after the synchronous part) holds
CallerAfter(d, d1) ==
  IF CacheHit(d.supportCache)
  THEN [pc |-> "returned", first |-> FALSE, waited |-> FALSE, got |-> d.supportCache,
        list |-> ListOf(d.supportCache)]
  ELSE IF InFlight(d.detectionPromise)
  THEN IF d.detectionPromise = "resolved"
       THEN [pc |-> "returned", first |-> FALSE, waited |-> FALSE, got |-> d.value,
        list |-> ListOf(d.value)]
       ELSE [pc |-> "waiting", first |-> FALSE, waited |-> TRUE, got |-> Undefined,
        list |-> ListOf(Undefined)]
  ELSE IF d1.detectionPromise = "resolved"
       THEN [pc |-> "returned", first |-> TRUE, waited |-> FALSE, got |-> d1.supportCache,
        list |-> ListOf(d1.supportCache)]
       ELSE [pc |-> "waiting", first |-> TRUE, waited |-> TRUE, got |-> Undefined,
        list |-> ListOf(Undefined)]

\* the promise resolved: a waiting caller resumes; the caller that started
\* the probe returns this.supportCache (line 101), the others the promise's
\* value (line 95)
CallerResumed(c, d1) ==
  IF c.pc = "waiting" /\ d1.detectionPromise = "resolved"
  THEN [c EXCEPT !.pc = "returned",
                 !.got = IF c.first THEN d1.supportCache ELSE d1.value,
                 !.list = ListOf(IF c.first THEN d1.supportCache ELSE d1.value)]
  ELSE c

DetCall(c) ==
  /\ callers[c].pc = "idle"
  /\ \E ctxA \in BOOLEAN, ctxW \in BOOLEAN :
       LET d1 == detectSupport(det, ctxA, ctxW) IN
         /\ det' = d1
         /\ callers' = [x \in Callers |->
                          IF x = c THEN CallerAfter(det, d1)
                          ELSE CallerResumed(callers[x], d1)]
  /\ UNCHANGED <<encVars, mapVars, appVars>>

InitDet == /\ det = NewDetector
           /\ callers = [c \in Callers |-> IdleCaller]
           /\ EncIdle /\ MapIdle /\ AppIdle

(***************************************************************************)
(* encodeCanvas on its own: every snapshot, every requested format, every  *)
(* sequence of toBlob answers.                                             *)
(***************************************************************************)
EncCall ==
  /\ enc.pc = "idle"
  /\ \E support \in Snapshots, format \in OutputFormat :
       /\ enc' = EncStart(support, format)
       /\ encSupport' = support
  /\ encOuts' = <<>>
  /\ UNCHANGED <<detVars, mapVars, appVars>>

EncAnswer ==
  /\ EncAwaiting(enc)
  /\ \E out \in Answers(enc) :
       /\ enc' = EncStep(enc, out)
       /\ encOuts' = Append(encOuts, out)
  /\ UNCHANGED <<encSupport, detVars, mapVars, appVars>>

InitEnc == DetIdle /\ EncIdle /\ MapIdle /\ AppIdle

NextEnc == EncCall \/ EncAnswer

SpecEnc == InitEnc /\ [][NextEnc]_vars

(***************************************************************************)
(* mapWithConcurrency on its own, with a worker that resolves with         *)
(* WorkerResult(item, index) or rejects, in any completion order.          *)
(***************************************************************************)
ItemValues == {"a", "b"}
WorkerResult(item, index) == <<item, index>>

RECURSIVE SeqsUpTo(_)
SeqsUpTo(n) ==
  IF n = 0 THEN {<<>>}
  ELSE LET shorter == SeqsUpTo(n - 1)
       IN shorter \cup {Append(q, v) : q \in {x \in shorter : Len(x) = n - 1},
                                       v \in ItemValues}

MapCall ==
  /\ m.state = "idle"
  /\ m' = MapStart(Len(mItems), mLimit)
  /\ UNCHANGED <<mItems, mLimit, mDone, detVars, encVars, appVars>>

MapWorkerResolve(i) ==
  /\ i \in m.running
  /\ m' = RunnerResume(m, i, WorkerResult(mItems[i + 1], i), Len(mItems))
  /\ mDone' = Append(mDone, i)
  /\ UNCHANGED <<mItems, mLimit, detVars, encVars, appVars>>

MapWorkerReject(i) ==
  /\ i \in m.running
  /\ m' = RunnerThrow(m, i)
  /\ UNCHANGED <<mItems, mLimit, mDone, detVars, encVars, appVars>>

InitMap == /\ mItems \in SeqsUpTo(MaxN)
           /\ mLimit \in -1..MaxN
           /\ m = NewMap
           /\ mDone = <<>>
           /\ DetIdle /\ EncIdle /\ AppIdle

NextMap == \/ MapCall
           \/ \E i \in 0..(MaxN - 1) : MapWorkerResolve(i)
           \/ \E i \in 0..(MaxN - 1) : MapWorkerReject(i)

SpecMap == InitMap /\ [][NextMap]_vars

(***************************************************************************)
(* The application (main.ts).                                              *)
(*                                                                         *)
(* A QueuedImage is a record of img, under its id (one image is made per   *)
(* file, so the file's number serves as the id):                           *)
(*   file             the File                                             *)
(*   originalRevoked  how often its originalUrl has been revoked           *)
(*   purls            the object URLs created for its processed blobs, in  *)
(*                    order: how often each has been revoked               *)
(*   processedUrl     the index in purls of the URL the field holds, 0     *)
(*                    when undefined                                       *)
(*   processedBlob    the declared type of the blob, None when undefined   *)
(*                    (processedSize is set and read together with it)     *)
(*   resultFilename   its extension, None when undefined                   *)
(*   error            None when undefined                                  *)
(*   usedFallback     Undefined or the record                              *)
(*                                                                         *)
(* A batch operation in flight is a record of ops:                         *)
(*   kind     "submit" (handleFiles), "all" (reprocessAll), "failed"       *)
(*            (reprocessFailedOnly)                                        *)
(*   format   the format read from formatSelect when it started            *)
(*   items    the array given to mapWithConcurrency: the files of a        *)
(*            submit, the filtered images of "failed"; "all" passes the    *)
(*            live queue itself                                            *)
(*   m        the limiter record of its mapWithConcurrency call            *)
(*   workers  for each running index, the image its worker works on        *)
(*   invokedOn  the images the worker was called with, in call order       *)
(*   atStart  for "all", the ids of the queue when the pass started       *)
(*                                                                         *)
(* Between its start and its end a worker touches nothing but its locals:  *)
(* it awaits img.decode, the capability record (which never changes once   *)
(* it is there) and one to three toBlob answers, and only then writes the  *)
(* image.  Those awaits are drawn together: a worker is one step, taken    *)
(* when the last of its host operations completes.  encodeCanvas is        *)
(* followed await by await in its own specification.                       *)
(***************************************************************************)
\* processFile, lines 189-195: URL.createObjectURL(file) and the new object
NewImage(file) ==
  [file |-> file, originalRevoked |-> 0, purls |-> <<>>, processedUrl |-> 0,
   processedBlob |-> None, resultFilename |-> None, error |-> None,
   usedFallback |-> Undefined]

\* how a pipeline ends when decodeImageFromUrl or createCanvasFromImage throws
\* (lines 198-199, 406-407, 458-459)
Thrown(format, err) ==
  [pc |-> "throw", format |-> format, actualFormat |-> format,
   usedFallback |-> Undefined, blob |-> None, err |-> err, reqs |-> <<>>]

\* URL.revokeObjectURL(image.processedUrl)
RevokeProcessed(image) ==
  [image EXCEPT !.purls[image.processedUrl] = @ + 1]

\* URL.revokeObjectURL(image.originalUrl)
RevokeOriginal(image) ==
  [image EXCEPT !.originalRevoked = @ + 1]

\* lines 212-218, 423-428, 475-480: the record stored on the image
FallbackRecord(p) ==
  Some([requestedFormat |-> p.usedFallback[1].requestedFormat,
        actualFormat |-> p.actualFormat,
        reason |-> p.usedFallback[1].reason])

\* processFile, lines 202-218: encodeCanvas returned p
ProcessFileOk(image, p) ==
  [image EXCEPT !.processedBlob = p.blob,
                !.resultFilename = getExtension(p.actualFormat),
                !.purls = Append(@, 0),
                !.processedUrl = Len(image.purls) + 1,
                !.usedFallback = IF p.usedFallback # Undefined
                                 THEN FallbackRecord(p) ELSE @]

\* (e as Error).message, lines 221, 434, 486: the text is not told apart
Message(err) == "message"

\* a processFile whose catch also releases the original handle
ProcessFileFailRevokes(image, err) ==
  RevokeOriginal([image EXCEPT !.error = Message(err)])

\* processFile, lines 220-222
ProcessFileFail(image, err) == [image EXCEPT !.error = Message(err)]

\* a reprocess worker that stores the new URL without revoking the old one
ReprocessOkKeeps(image, p) ==
  [image EXCEPT !.processedBlob = p.blob,
                !.resultFilename = getExtension(p.actualFormat),
                !.purls = Append(@, 0),
                !.processedUrl = Len(image.purls) + 1,
                !.error = None,
                !.usedFallback = IF p.usedFallback # Undefined
                                 THEN FallbackRecord(p) ELSE Undefined]

\* the worker of reprocessAll and reprocessFailedOnly, lines 410-431, 462-483
ReprocessOk(image, p) ==
  LET i1 == IF image.processedUrl # 0 THEN RevokeProcessed(image) ELSE image
  IN [i1 EXCEPT !.processedBlob = p.blob,
                !.resultFilename = getExtension(p.actualFormat),
                !.purls = Append(@, 0),
                !.processedUrl = Len(i1.purls) + 1,
                !.error = None,
                !.usedFallback = IF p.usedFallback # Undefined
                                 THEN FallbackRecord(p) ELSE Undefined]

\* a reprocess worker whose catch also releases the original handle
ReprocessFailRevokes(image, err) ==
  RevokeOriginal([image EXCEPT !.error = Message(err), !.usedFallback = Undefined])

\* a reprocess worker whose catch leaves the fallback record as it was
ReprocessFailKeepsRecord(image, err) == [image EXCEPT !.error = Message(err)]

\* lines 433-436, 485-488
ReprocessFail(image, err) ==
  [image EXCEPT !.error = Message(err), !.usedFallback = Undefined]

\* the end of a worker whose pipeline ended as p ("ok" or "throw")
WriteBack(kind, image, p) ==
  IF kind = "submit"
  THEN (IF p.pc = "ok" THEN ProcessFileOk(image, p) ELSE ProcessFileFail(image, p.err))
  ELSE (IF p.pc = "ok" THEN ReprocessOk(image, p) ELSE ReprocessFail(image, p.err))

\* the stage an error comes from
StageOf(err) ==
  IF err = "DecodeError" THEN "decode"
  ELSE IF err = "SurfaceError" THEN "canvas"
  ELSE "encode"

\* a worker that awaits the decode before entering its try block
TryBlockAfterDecode(kind) == {"canvas", "encode"}

\* the statements inside the worker's try block: lines 198-200 (processFile),
\* 406-408 (reprocessAll), 458-460 (reprocessFailedOnly)
TryBlock(kind) == {"decode", "canvas", "encode"}

\* whether the worker's catch turns a failure into image.error
Caught(kind, err) == StageOf(err) \in TryBlock(kind)

ItemsLen(op) == IF op.kind = "all" THEN Len(queue) ELSE Len(op.items)

\* items[current] for a worker started now
ItemAt(op, current) ==
  IF op.kind = "all" THEN queue[current + 1] ELSE op.items[current + 1]

\* The synchronous start of the workers of the indices cs of op, the last
\* ones its limiter has invoked: processFile creates the image of its file;
\* the reprocess workers take the image of the array.  Gives
\* [img, workers, invokedOn].
StartWorkers(op, cs, im, ws) ==
  LET made == IF op.kind = "submit" THEN {op.items[c + 1] : c \in cs} ELSE {}
  IN [img |-> [id \in (DOMAIN im) \cup made |->
                 IF id \in made THEN NewImage(id) ELSE im[id]],
      workers |-> [j \in (DOMAIN ws) \cup cs |->
                     IF j \in cs
                     THEN [image |-> ItemAt(op, j)]
                     ELSE ws[j]],
      invokedOn |-> op.invokedOn \o
                    [j \in 1..Cardinality(cs) |->
                       ItemAt(op, op.m.invoked[Len(op.m.invoked) - Cardinality(cs) + j])]]

RemoveAt(q, k) == [j \in 1..(Len(q) - 1) |-> IF j < k THEN q[j] ELSE q[j + 1]]

\* a remove handler that leaves the item in the queue
SpliceNothing(q, idx) == q

\* queue.splice(idx, 1), line 269
Splice(q, idx) == RemoveAt(q, idx)

\* a handleFiles that puts the results in front of the queue
PushResultsFront(q, results) ==
  [j \in 1..ResultsLength(results) |-> results[j - 1]] \o q

\* queue.push(...results), line 321
PushResults(q, results) ==
  q \o [j \in 1..ResultsLength(results) |-> results[j - 1]]

\* a reprocess pass that ends without clearing the flag
FlagAfterKept(kind, ended, flag) == flag

\* the finally of the reprocess passes, lines 438-441 and 490-493: the flag
\* once the operation's mapWithConcurrency call has settled
FlagAfter(kind, ended, flag) ==
  IF ended /\ kind # "submit" THEN FALSE ELSE flag

\* A batch operation begins: mapWithConcurrency is called and every runner
\* runs to its first await.  Gives [img, ops].
Begin(kind, format, items, len) ==
  LET m0  == MapStart(len, DEFAULT_CONCURRENCY(hw))
      op0 == [kind |-> kind, format |-> format, items |-> items, m |-> m0,
              workers |-> <<>>, invokedOn |-> <<>>,
              atStart |-> IF kind = "all" THEN queue ELSE <<>>]
      st  == StartWorkers(op0, m0.running, img, <<>>)
  IN [img |-> st.img,
      ops |-> Append(ops, [op0 EXCEPT !.workers = st.workers,
                                      !.invokedOn = st.invokedOn])]

\* The pipeline of the worker of index i of ops[k] ended as p ("ok" or
\* "throw").  The worker writes the image and resolves (or rejects, were the
\* failure outside its try block); its runner stores the result and claims
\* the next index, whose worker starts at once; when no runner is left the
\* operation's own continuation runs: handleFiles pushes the results (line
\* 321), the reprocess passes clear the flag (lines 439, 491).  Gives
\* [img, ops, queue, isReprocessing].
Finish(k, i, p) ==
  LET op     == ops[k]
      w      == op.workers[i]
      caught == p.pc = "ok" \/ Caught(op.kind, p.err)
      h1     == IF caught
                THEN [img EXCEPT ![w.image] = WriteBack(op.kind, @, p)]
                ELSE img
      res    == IF op.kind = "submit" THEN w.image ELSE 0
      m1     == IF caught THEN RunnerResume(op.m, i, res, ItemsLen(op))
                ELSE RunnerThrow(op.m, i)
      kept   == [j \in m1.running \cap DOMAIN op.workers |-> op.workers[j]]
      st     == StartWorkers([op EXCEPT !.m = m1],
                             m1.running \ DOMAIN op.workers, h1, kept)
      op1    == [op EXCEPT !.m = m1, !.workers = st.workers,
                           !.invokedOn = st.invokedOn]
      ended  == op.m.state = "running" /\ m1.state # "running"
  IN [img   |-> st.img,
      ops   |-> IF m1.state = "resolved" THEN RemoveAt(ops, k)
                ELSE [ops EXCEPT ![k] = op1],
      queue |-> IF m1.state = "resolved" /\ op.kind = "submit"
                THEN PushResults(queue, m1.results) ELSE queue,
      isReprocessing |-> FlagAfter(op.kind, ended, isReprocessing)]

\* downloadAll, lines 367-372: the entries put in the archive for the queue
\* q, one per item that has a processedBlob and a resultFilename
downloadAll(q) ==
  {[item |-> q[j], filename |-> img[q[j]].resultFilename,
    artifact |-> img[q[j]].processedBlob] :
     j \in {x \in 1..Len(q) : /\ img[q[x]].processedBlob # None
                              /\ img[q[x]].resultFilename # None}}

\* the page is still loaded, and stays so
Loaded == ~unloaded /\ unloaded' = unloaded

Apply(r) ==
  /\ img' = r.img
  /\ ops' = r.ops
  /\ queue' = r.queue
  /\ isReprocessing' = r.isReprocessing

\* the record a pipeline gets from isFormatSupported / getBestFallbackFormat
\* once the detection has resolved
SupportSeen(d) ==
  IF CacheHit(d.supportCache) THEN d.supportCache[1] ELSE d.value[1]

\* img.decode() rejected, or createCanvasFromImage threw, for the worker of
\* index i of ops[k]
DecodeFailed(k, i) ==
  /\ Loaded
  /\ k \in 1..Len(ops)
  /\ i \in DOMAIN ops[k].workers
  /\ \E err \in {"DecodeError", "SurfaceError"} :
       \E r \in {Finish(k, i, Thrown(ops[k].format, err))} : Apply(r)
  /\ UNCHANGED <<det, callers, formatSelect, hw, nfiles, encVars, mapVars>>

\* the last toBlob of the encodeCanvas of the worker of index i of ops[k]
\* was answered (decode and canvas having succeeded)
EncodeSettled(k, i) ==
  /\ Loaded
  /\ k \in 1..Len(ops)
  /\ i \in DOMAIN ops[k].workers
  /\ det.detectionPromise = "resolved"
  /\ \E p \in EncEndings(SupportSeen(det), ops[k].format) :
       \E r \in {Finish(k, i, p)} : Apply(r)
  /\ UNCHANGED <<det, callers, formatSelect, hw, nfiles, encVars, mapVars>>

\* canvas.toBlob answered the probe of format f; when the promise resolves
\* every caller awaiting it goes on
ProbeAnswer(f) ==
  /\ Loaded
  /\ det[f] = "pending"
  /\ \E outcome \in ProbeOutcomes(getMimeType(f)) :
       LET d1 == ProbeAnswered(det, f, outcome) IN
         /\ det' = d1
         /\ callers' = [c \in Callers |-> CallerResumed(callers[c], d1)]
  /\ UNCHANGED <<formatSelect, hw, queue, img, ops, isReprocessing, nfiles,
                 encVars, mapVars>>

NextDet == \/ \E c \in Callers : DetCall(c)
           \/ \E f \in {"avif", "webp"} : ProbeAnswer(f)

SpecDet == InitDet /\ [][NextDet]_vars

(***************************************************************************)
(* The handlers of user events.                                            *)
(***************************************************************************)
\* handleFiles(files), lines 315-320, with n files: no busy check is made
HandleFiles(n) ==
  /\ Loaded
  /\ Len(ops) < MaxOps
  /\ nfiles + n <= MaxItems
  /\ IF n = 0
     THEN UNCHANGED <<img, ops, nfiles>>
     ELSE LET files == [j \in 1..n |-> nfiles + j]
              r == Begin("submit", formatSelect, files, n)
          IN /\ img' = r.img
             /\ ops' = r.ops
             /\ nfiles' = nfiles + n
  /\ UNCHANGED <<queue, isReprocessing, formatSelect, hw,
                 detVars, encVars, mapVars>>

\* a reprocess pass may still start: no image has used up its handles
HandlesLeft == \A id \in DOMAIN img : Len(img[id].purls) < MaxHandles

\* a reprocessAll that does not look at the flag
ReprocessAllSkipsIfEmpty(busy, len) == len = 0

\* whether reprocessAll returns before taking the flag, line 397
ReprocessAllSkips(busy, len) == busy \/ len = 0

\* reprocessAll(), lines 396-404, with the format now selected
reprocessAll(format) ==
  IF ReprocessAllSkips(isReprocessing, Len(queue))
  THEN UNCHANGED <<img, ops, isReprocessing>>
  ELSE /\ Len(ops) < MaxOps
       /\ HandlesLeft
       /\ LET r == Begin("all", format, <<>>, Len(queue))
          IN /\ img' = r.img
             /\ ops' = r.ops
       /\ isReprocessing' = TRUE

\* the change handler of formatSelect, lines 344-348
ChangeFormat(f) ==
  /\ Loaded
  /\ f # formatSelect
  /\ formatSelect' = f
  /\ reprocessAll(f)
  /\ UNCHANGED <<queue, hw, nfiles, detVars, encVars, mapVars>>

\* the change handler of qualityInput, lines 340-343
ChangeQuality ==
  /\ Loaded
  /\ reprocessAll(formatSelect)
  /\ UNCHANGED <<formatSelect, queue, hw, nfiles, detVars, encVars, mapVars>>

\* a reprocessFailedOnly that takes every item of the queue
FailedOfAll(q) == q

\* queue.filter(q => q.error), line 447
FailedOf(q) == SelectSeq(q, LAMBDA id : img[id].error # None)

\* a reprocessFailedOnly that does not look at the flag
FailedOnlySkipsIfNone(busy, failed) == Len(failed) = 0

\* whether reprocessFailedOnly returns before taking the flag, lines 446-448
FailedOnlySkips(busy, failed) == busy \/ Len(failed) = 0

\* the click handler of retryFailedBtn: reprocessFailedOnly(), lines 445-456
RetryFailed ==
  /\ Loaded
  /\ LET failed == FailedOf(queue) IN
     IF FailedOnlySkips(isReprocessing, failed)
     THEN UNCHANGED <<img, ops, isReprocessing>>
     ELSE /\ Len(ops) < MaxOps
          /\ HandlesLeft
          /\ LET r == Begin("failed", formatSelect, failed, Len(failed))
             IN /\ img' = r.img
                /\ ops' = r.ops
          /\ isReprocessing' = TRUE
  /\ UNCHANGED <<formatSelect, queue, hw, nfiles, detVars, encVars, mapVars>>

\* queue.findIndex(q => q.id === img.id), line 265: 0 when there is none
FindIndex(q, id) ==
  IF \E j \in 1..Len(q) : q[j] = id
  THEN CHOOSE j \in 1..Len(q) : q[j] = id /\ \A x \in 1..(j - 1) : q[x] # id
  ELSE 0

\* the click handler of an item's remove button, lines 264-272
Remove(id) ==
  /\ Loaded
  /\ id \in DOMAIN img
  /\ LET idx == FindIndex(queue, id) IN
     IF idx > 0
     THEN /\ img' = [img EXCEPT ![queue[idx]] =
                       LET i1 == RevokeOriginal(@)
                       IN IF i1.processedUrl # 0 THEN RevokeProcessed(i1) ELSE i1]
          /\ queue' = Splice(queue, idx)
     ELSE UNCHANGED <<img, queue>>
  /\ UNCHANGED <<ops, isReprocessing, formatSelect, hw, nfiles,
                 detVars, encVars, mapVars>>

\* the beforeunload handler, lines 585-592: every URL of every item of the
\* queue is revoked, and the page is gone
Teardown ==
  /\ ~unloaded
  /\ unloaded' = TRUE
  /\ img' = [id \in DOMAIN img |->
               IF \E j \in 1..Len(queue) : queue[j] = id
               THEN LET i1 == RevokeOriginal(img[id])
                    IN IF i1.processedUrl # 0 THEN RevokeProcessed(i1) ELSE i1
               ELSE img[id]]
  /\ UNCHANGED <<queue, ops, isReprocessing, formatSelect, hw, nfiles,
                 detVars, encVars, mapVars>>

\* After the module has loaded: initializeApp() (line 583) has called
\* getFormatInfoList, whose detectSupport started the probe.
Init ==
  /\ \E ctxA \in BOOLEAN, ctxW \in BOOLEAN :
       det = detectSupport(NewDetector, ctxA, ctxW)
  /\ callers = [c \in Callers |-> IdleCaller]
  /\ formatSelect \in Selectable
  /\ hw \in 0..MaxHW
  /\ queue = <<>>
  /\ img = <<>>
  /\ ops = <<>>
  /\ isReprocessing = FALSE
  /\ nfiles = 0
  /\ unloaded = FALSE
  /\ EncIdle /\ MapIdle

Next ==
  \/ \E n \in 0..MaxFiles : HandleFiles(n)
  \/ \E f \in Selectable : ChangeFormat(f)
  \/ ChangeQuality
  \/ RetryFailed
  \/ \E id \in 1..MaxItems : Remove(id)
  \/ \E k \in 1..MaxOps, i \in 0..(MaxItems - 1) : DecodeFailed(k, i)
  \/ \E k \in 1..MaxOps, i \in 0..(MaxItems - 1) : EncodeSettled(k, i)
  \/ \E f \in {"avif", "webp"} : ProbeAnswer(f)
  \/ Teardown

Spec == Init /\ [][Next]_vars

\* the host operations (img.decode, canvas.toBlob) that the worker on image
\* id awaits complete
WorkerOn(id) ==
  \E k \in 1..MaxOps, i \in 0..(MaxItems - 1) :
    /\ k <= Len(ops)
    /\ i \in DOMAIN ops[k].workers
    /\ ops[k].workers[i].image = id
    /\ (DecodeFailed(k, i) \/ EncodeSettled(k, i))

\* The batch operations alone: files are submitted and reprocess passes are
\* started, no item is removed and the format stays as it is.
NextBatch ==
  \/ \E n \in 0..MaxFiles : HandleFiles(n)
  \/ ChangeQuality
  \/ RetryFailed
  \/ \E k \in 1..MaxOps, i \in 0..(MaxItems - 1) : DecodeFailed(k, i)
  \/ \E k \in 1..MaxOps, i \in 0..(MaxItems - 1) : EncodeSettled(k, i)
  \/ \E f \in {"avif", "webp"} : ProbeAnswer(f)

SpecBatch == Init /\ [][NextBatch]_vars

\* SpecBatch where every host operation asked for eventually completes: the
\* toBlob of each probe, and the decode and toBlob calls of each worker.
FairSpec ==
  /\ SpecBatch
  /\ \A f \in {"avif", "webp"} : WF_vars(ProbeAnswer(f))
  /\ \A id \in 1..MaxItems : WF_vars(WorkerOn(id))

(***************************************************************************)
(* Properties of mapWithConcurrency (SpecMap).                             *)
(***************************************************************************)
\* C1: for a list of N items and a limit of at least 1 (the limits 1..N
\* among them), whatever the order in which the workers complete, a call
\* that returns gives exactly N results and result[i] is the result of
\* worker(items[i], i).
C1_ResultsInSubmissionOrder ==
  (m.state = "resolved" /\ mLimit >= 1) =>
    /\ ResultsLength(m.results) = Len(mItems)
    /\ DOMAIN m.results = 0..(Len(mItems) - 1)
    /\ \A i \in 0..(Len(mItems) - 1) :
         m.results[i] = WorkerResult(mItems[i + 1], i)

\* a call over two or more items, under a limit between 1 and N, has
\* returned although a later item completed before an earlier one
C1_Witness ==
  /\ m.state = "resolved"
  /\ Len(mItems) >= 2
  /\ mLimit \in 1..Len(mItems)
  /\ \E a, b \in 1..Len(mDone) : a < b /\ mDone[a] > mDone[b]

(***************************************************************************)
(* Properties of encodeCanvas (SpecEnc).                                   *)
(***************************************************************************)
\* the formats after a format on the fallback chain avif -> webp -> jpeg
FallbackChain(format) ==
  IF format = "avif" THEN {"webp", "jpeg"}
  ELSE IF format = "webp" THEN {"jpeg"}
  ELSE {}

\* C4: when the requested format is unsupported in the snapshot and
\* encodeCanvas succeeds, the returned actualFormat is supported in the
\* snapshot and lies on the fallback chain of the requested format, and the
\* returned fallback record names the requested format.
C4_FallbackIsSupported ==
  (enc.pc = "ok" /\ ~encSupport[enc.format]) =>
    /\ encSupport[enc.actualFormat]
    /\ enc.actualFormat \in FallbackChain(enc.format)
    /\ enc.usedFallback # Undefined
    /\ enc.usedFallback[1].requestedFormat = enc.format

\* avif was requested where only webp is supported, and webp was returned
C4_Witness ==
  /\ enc.pc = "ok"
  /\ enc.format = "avif"
  /\ ~encSupport.avif /\ encSupport.webp
  /\ enc.actualFormat = "webp"
  /\ enc.blob = "image/webp"

\* Scenario D: a fallback format other than jpeg was selected, the first
\* answer is a blob of another type than the one asked, and every answer to
\* a JPEG request is a blob whose type is not image/jpeg
ScenarioD ==
  /\ enc.pc \in {"ok", "throw"}
  /\ ~encSupport[enc.format]
  /\ enc.reqs[1] # "jpeg"
  /\ encOuts[1] \notin {"null", "raise", getMimeType(enc.reqs[1])}
  /\ \A j \in 2..Len(encOuts) : encOuts[j] \notin {"null", "raise", "image/jpeg"}

\* C5: in Scenario D encodeCanvas rejects, so that the item ends FAILED.
C5_ScenarioDFails == ScenarioD => enc.pc = "throw"

\* C6: every successful return of encodeCanvas carries a blob whose declared
\* type is the media type of the returned actualFormat.
C6_ReturnedTypeMatches ==
  enc.pc = "ok" => enc.blob = getMimeType(enc.actualFormat)

(***************************************************************************)
(* Properties of the detector (SpecDet).                                   *)
(***************************************************************************)
Returned(c) == callers[c].pc = "returned"

\* C9: whatever the number of callers and however their calls interleave
\* with the probe's completion, performDetection runs at most once.
C9_SingleFlight == det.probes <= 1

\* one probe has served a caller that started it, a caller that arrived
\* while it was in flight, and a caller that arrived after it resolved
C9_Witness ==
  /\ det.probes = 1
  /\ \E c1, c2, c3 \in Callers :
       /\ Returned(c1) /\ callers[c1].first
       /\ Returned(c2) /\ ~callers[c2].first /\ callers[c2].waited
       /\ Returned(c3) /\ ~callers[c3].first /\ ~callers[c3].waited

\* C10: every call of detectSupport returns the same FormatSupport values,
\* those of the cached record.
C10_SameSnapshot ==
  \A c1, c2 \in Callers :
    (Returned(c1) /\ Returned(c2)) =>
      /\ callers[c1].got = callers[c2].got
      /\ callers[c1].got # Undefined
      /\ callers[c1].got = det.supportCache

\* the caller that started the probe and a later caller both hold a record
\* that differs from the pessimistic one
C10_Witness ==
  \E c1, c2 \in Callers :
    /\ Returned(c1) /\ callers[c1].first
    /\ Returned(c2) /\ ~callers[c2].first
    /\ callers[c1].got = Some(FormatSupport(TRUE, FALSE))
    /\ callers[c2].got = Some(FormatSupport(TRUE, FALSE))

(***************************************************************************)
(* Properties of the application (Spec, FairSpec).                         *)
(***************************************************************************)
\* the batch operations still running
RunningOps == {k \in 1..Len(ops) : ops[k].m.state = "running"}
\* the reprocess passes (reprocessAll, reprocessFailedOnly) among them
ReprocessOps == {k \in RunningOps : ops[k].kind # "submit"}

C3_ErrorExcludesArtifact ==
  \A id \in DOMAIN img :
    ~(img[id].error # None /\
      (img[id].processedUrl # 0 \/ img[id].processedBlob # None))

\* C7: no failure of decode, canvas creation or encode leaves a worker as a
\* rejected promise: no mapWithConcurrency call of a batch operation rejects.
C7_NoBatchRejects ==
  \A k \in 1..Len(ops) : ops[k].m.state # "rejected"

\* both items of the collection failed and no operation is left in flight
C7_Witness ==
  /\ ops = <<>>
  /\ Len(queue) = 2
  /\ \A j \in 1..Len(queue) : img[queue[j]].error # None
  /\ \A j \in 1..Len(queue) : img[queue[j]].processedUrl = 0

\* an item is in a terminal state: failed or succeeded
Terminal(id) ==
  id \in DOMAIN img /\ (img[id].error # None \/ img[id].processedUrl # 0)

\* C8: every file handed to handleFiles eventually becomes an item in a
\* terminal state, whatever fails beside it, provided the host's decode and
\* encode calls complete.
C8_EveryItemSettles ==
  \A f \in 1..MaxItems : (nfiles >= f) ~> Terminal(f)

\* under a single runner the first item failed, and its sibling was claimed
\* after it and succeeded
C8_Witness ==
  /\ hw = 1
  /\ ops = <<>>
  /\ queue = <<1, 2>>
  /\ img[1].error # None /\ img[1].processedUrl = 0
  /\ img[2].error = None /\ img[2].processedUrl # 0

(***************************************************************************)
(* Properties of getBestFallbackFormat (SpecEnc: encodeCanvas is called    *)
(* with every snapshot and every requested format).                        *)
(***************************************************************************)
\* what the fallback chain prescribes: the requested format when it is
\* supported, webp for avif when webp is supported, jpeg otherwise
PrescribedFormat(support, format) ==
  IF support[format] THEN format
  ELSE IF format = "avif" /\ support.webp THEN "webp"
  ELSE "jpeg"

\* C11: for every snapshot (jpeg and png true) and every requested format,
\* getBestFallbackFormat returns the requested format when it is supported,
\* webp for an unsupported avif when webp is supported, jpeg in every other
\* unsupported case, and the result is always supported; it is the format of
\* the first encode request of encodeCanvas.
C11_FallbackChain ==
  enc.pc # "idle" =>
    LET result == getBestFallbackFormat(encSupport, enc.format) IN
      /\ result = PrescribedFormat(encSupport, enc.format)
      /\ encSupport[result]
      /\ enc.reqs[1] = result

\* avif was requested where neither avif nor webp is supported, and the
\* first encode request is for the baseline jpeg
C11_Witness ==
  /\ enc.pc = "enc1"
  /\ enc.format = "avif"
  /\ ~encSupport.avif /\ ~encSupport.webp
  /\ enc.reqs = <<"jpeg">>

(***************************************************************************)
(* Frame properties of the batch operations (Spec).                        *)
(***************************************************************************)
\* the images a worker of an operation in flight is working on
WorkedOn ==
  UNION {{ops[k].workers[i].image : i \in DOMAIN ops[k].workers} : k \in 1..Len(ops)}
\* the items of the collection
Collection == {queue[j] : j \in 1..Len(queue)}
\* the items of the collection whose error is set, in order
WithError == SelectSeq(queue, LAMBDA id : img[id].error # None)
\* the reprocessFailedOnly passes in flight
FailedOps == {k \in 1..Len(ops) : ops[k].kind = "failed"}

\* C12: reprocessFailedOnly takes the flag and starts a pass only when some
\* item has its error set, the pass is over exactly the items whose error is
\* set at the call, it invokes the pipeline once on each of them and on no
\* other, and an item changes only through a worker that works on it (or
\* through its removal or the unloading of the page).
C12_FailedOnlyFrame ==
  /\ [](\A k \in FailedOps :
          /\ Len(ops[k].items) > 0
          /\ Len(ops[k].invokedOn) <= Len(ops[k].items)
          /\ \A j \in 1..Len(ops[k].invokedOn) : ops[k].invokedOn[j] = ops[k].items[j]
          /\ \A i \in DOMAIN ops[k].workers :
               \E j \in 1..Len(ops[k].items) : ops[k].items[j] = ops[k].workers[i].image)
  /\ [][/\ (FailedOps = {} /\ FailedOps' # {}) =>
             /\ ~isReprocessing /\ isReprocessing'
             /\ Len(WithError) > 0
             /\ ops'[Len(ops')].items = WithError
             /\ queue' = queue
             /\ img' = img
        /\ (FailedOps # {} /\ FailedOps' = {}) =>
             \A k \in FailedOps : Len(ops[k].invokedOn) = Len(ops[k].items)
        /\ (~isReprocessing /\ isReprocessing') =>
             \E k \in 1..Len(ops') : ops'[k].kind # "submit"
        /\ \A k \in FailedOps : \A id \in Collection \cap Collection' :
             (\A j \in 1..Len(ops[k].items) : ops[k].items[j] # id) =>
               img'[id] = img[id] \/ unloaded'
        /\ \A id \in DOMAIN img :
             img'[id] # img[id] =>
               \/ id \in WorkedOn
               \/ id \in Collection /\ id \notin Collection'
               \/ unloaded']_vars

\* a reprocessFailedOnly pass runs over the one failed item of a collection
\* of two, whose other item succeeded
C12_Witness ==
  /\ Len(queue) = 2
  /\ \E k \in FailedOps :
       /\ Len(ops[k].items) = 1
       /\ ops[k].invokedOn = ops[k].items
       /\ \E id \in Collection :
            /\ id # ops[k].items[1]
            /\ img[id].error = None /\ img[id].processedUrl # 0

\* the submit operations in flight
SubmitOps == {k \in 1..Len(ops) : ops[k].kind = "submit"}

\* C13: a reprocessAll or reprocessFailedOnly pass changes neither the
\* identity nor the position of an item: a step that neither detaches nor
\* appends an item leaves the sequence of ids as it is, so does every step
\* taken during a pass in which no submit ends and no item is removed, and
\* no step changes the original file of an item of the
\* collection or, while the page is loaded and the item stays, releases its
\* original handle.
C13_PassKeepsIdentityAndPosition ==
  [][/\ Len(queue') = Len(queue) => queue' = queue
     /\ ((ReprocessOps # {} \/ ReprocessOps' # {})
           /\ Cardinality(SubmitOps') >= Cardinality(SubmitOps)
           /\ Len(queue') >= Len(queue)) =>
          queue' = queue
     /\ \A id \in Collection \cap Collection' :
          /\ img'[id].file = img[id].file
          /\ img'[id].file = id
          /\ unloaded' \/ img'[id].originalRevoked = img[id].originalRevoked]_vars

\* two items have been submitted and reprocessed, and sit in the collection
\* in submission order with their original handles
C13_Witness ==
  /\ queue = <<1, 2>>
  /\ ops = <<>>
  /\ ~isReprocessing
  /\ \A id \in Collection :
       Len(img[id].purls) = 2 /\ img[id].originalRevoked = 0 /\ img[id].file = id

\* C14: removing an item of the collection detaches it and releases its
\* original handle and its current processed handle (if any), each of them
\* unreleased until then and released once by the removal, and changes no
\* other item; an original handle is released only so (or by the unloading of
\* the page), hence never twice: a removal of an identifier that is no longer
\* in the collection releases nothing and leaves the collection as it is.
C14_RemoveReleasesOnce ==
  /\ [](\A id \in DOMAIN img :
          /\ img[id].originalRevoked <= 1
          /\ (id \in Collection /\ ~unloaded) => img[id].originalRevoked = 0)
  /\ [][/\ Len(queue') < Len(queue) =>
             \E idx \in 1..Len(queue) :
               LET id == queue[idx]
                   cur == img[id].processedUrl
               IN /\ queue' = RemoveAt(queue, idx)
                  /\ id \notin Collection'
                  /\ img[id].originalRevoked = 0
                  /\ cur # 0 => img[id].purls[cur] = 0
                  /\ img'[id] =
                       [img[id] EXCEPT
                          !.originalRevoked = 1,
                          !.purls = [j \in 1..Len(img[id].purls) |->
                                       IF j = cur THEN 1 ELSE img[id].purls[j]]]
                  /\ \A other \in DOMAIN img \ {id} : img'[other] = img[other]
        /\ \A id \in DOMAIN img :
             (img'[id].originalRevoked # img[id].originalRevoked /\ ~unloaded') =>
               id \in Collection /\ id \notin Collection'
        /\ \A id \in DOMAIN img \ (Collection \cup WorkedOn) :
             img'[id] = img[id]]_vars

\* an item with a processed handle has been removed while another stays
C14_Witness ==
  /\ ~unloaded
  /\ Len(queue) = 1
  /\ \E id \in DOMAIN img \ Collection :
       /\ img[id].originalRevoked = 1
       /\ img[id].processedUrl # 0
       /\ img[id].purls[img[id].processedUrl] = 1

\* operation k takes this step: a worker of it completes
Stepped(k) ==
  \/ Len(ops') = Len(ops) /\ ops'[k] # ops[k]
  \/ Len(ops') = Len(ops) - 1 /\ ops' = RemoveAt(ops, k)
\* the images whose worker of operation k completes in this step
Completed(k) ==
  IF Len(ops') < Len(ops)
  THEN {ops[k].workers[i].image : i \in ops[k].m.running}
  ELSE {ops[k].workers[i].image : i \in ops[k].m.running \ ops'[k].m.running}
\* the reprocessAll passes in flight
AllOps == {k \in 1..Len(ops) : ops[k].kind = "all"}
\* the images whose reprocessAll worker completes in this step
Reprocessed == UNION {Completed(k) : k \in {x \in AllOps : Stepped(x)}}
\* the call made while a pass runs starts nothing
SecondCallStartsNothing ==
  /\ (isReprocessing /\ formatSelect' # formatSelect) =>
       UNCHANGED <<img, ops, queue, isReprocessing>>
  /\ isReprocessing =>
       \/ Len(ops') <= Len(ops)
       \/ ops'[Len(ops')].kind = "submit"
\* a pass invokes the pipeline at most once on an item
OncePerItem ==
  \A k \in 1..Len(ops) : ops[k].kind # "submit" =>
    \A a, b \in 1..Len(ops[k].invokedOn) :
      ops[k].invokedOn[a] = ops[k].invokedOn[b] => a = b

\* C15 as stated: a reprocessAll called while a pass runs starts nothing, and
\* the pass creates exactly one new processed handle for each item it works
\* on.
C15_ExactlyOneHandlePerItem ==
  [][/\ SecondCallStartsNothing
     /\ \A id \in Reprocessed : Len(img'[id].purls) = Len(img[id].purls) + 1]_vars

\* C15: a reprocessAll called while a pass runs returns without starting a
\* pipeline; the running pass invokes the pipeline at most once on an item,
\* and the attempt creates one new processed handle when it succeeds and none
\* when it fails; no other step of a reprocess pass creates a handle.
C15_AtMostOneHandlePerItem ==
  /\ []OncePerItem
  /\ [][/\ SecondCallStartsNothing
        /\ \A id \in Reprocessed :
             Len(img'[id].purls) =
               Len(img[id].purls) + (IF img'[id].error = None THEN 1 ELSE 0)
        /\ \A id \in DOMAIN img :
             Len(img'[id].purls) > Len(img[id].purls) =>
               /\ Len(img'[id].purls) = Len(img[id].purls) + 1
               /\ \E k \in 1..Len(ops) : Stepped(k) /\ id \in Completed(k)]_vars

\* the format is changed while the pass started by the previous change is
\* still running on both items: the second reprocessAll has returned at once
C15_Witness ==
  \E k \in AllOps :
    /\ isReprocessing
    /\ ops[k].format # formatSelect
    /\ Len(ops) = 1
    /\ Len(queue) = 2
    /\ Len(ops[k].invokedOn) = 2

\* C16: every processed handle of an item other than the one it now holds
\* has been released, so an item holds at most one unreleased processed
\* handle; the handle it holds is the last one created for it, and an item of
\* the collection has released each superseded handle exactly once.
C16_SupersededHandlesReleased ==
  \A id \in DOMAIN img :
    /\ img[id].processedUrl \in {0, Len(img[id].purls)}
    /\ Len(img[id].purls) > 0 => img[id].processedUrl # 0
    /\ \A j \in 1..Len(img[id].purls) :
         /\ j # img[id].processedUrl => img[id].purls[j] >= 1
         /\ (j # img[id].processedUrl /\ id \in Collection) => img[id].purls[j] = 1
    /\ Cardinality({j \in 1..Len(img[id].purls) : img[id].purls[j] = 0}) <= 1

\* the passes are over and an item of the collection holds its second
\* processed handle, the first one released
C16_Witness ==
  /\ ops = <<>>
  /\ ~unloaded
  /\ \E id \in Collection :
       img[id].purls = <<1, 0>> /\ img[id].processedUrl = 2

\* C17: while the page is loaded the original handle of an item of the
\* collection, and of an item a submit is still working on, is unreleased
\* whatever the outcomes of the pipelines run on it; a step releases an
\* original handle only by removing its item from the collection or by
\* unloading the page, and no step of a batch operation releases one.
C17_OriginalHandleKept ==
  /\ [](~unloaded =>
          \A id \in Collection \cup WorkedOn :
            id \in Collection \/ (\E k \in SubmitOps : \E j \in 1..Len(ops[k].items) : ops[k].items[j] = id)
              => img[id].originalRevoked = 0)
  /\ [][/\ \A id \in DOMAIN img :
             img'[id].originalRevoked # img[id].originalRevoked =>
               /\ img'[id].originalRevoked = img[id].originalRevoked + 1
               /\ id \in Collection
               /\ (~unloaded /\ unloaded') \/ id \notin Collection'
        /\ (\E k \in 1..Len(ops) : Stepped(k)) \/ Len(ops') > Len(ops) =>
             \A id \in DOMAIN img : img'[id].originalRevoked = img[id].originalRevoked]_vars

\* an item was submitted with success and reprocessed with a failure, and
\* another was submitted with a failure: both still have their original
\* handle
C17_Witness ==
  /\ ~unloaded
  /\ ops = <<>>
  /\ Len(queue) = 2
  /\ \A id \in Collection : img[id].originalRevoked = 0 /\ img[id].error # None
  /\ \E id \in Collection : Len(img[id].purls) = 0
  /\ \E id \in Collection : Len(img[id].purls) = 1

(***************************************************************************)
(* The degenerate calls of mapWithConcurrency (SpecMap).                   *)
(***************************************************************************)
\* C18: a call of mapWithConcurrency with no item, or with a limit <= 0 and
\* any items, resolves at once with an empty result array, having started no
\* runner (nextIndex is still 0) and never invoked the worker.
C18_DegenerateCallIsEmpty ==
  ((Len(mItems) = 0 \/ mLimit <= 0) /\ m.state # "idle") =>
    /\ m.state = "resolved"
    /\ DOMAIN m.results = {}
    /\ ResultsLength(m.results) = 0
    /\ m.nextIndex = 0
    /\ m.running = {}
    /\ m.invoked = <<>>
    /\ mDone = <<>>

\* a call with two or more items and a limit <= 0 has resolved
C18_Witness ==
  /\ m.state = "resolved"
  /\ Len(mItems) >= 2
  /\ mLimit <= 0

(***************************************************************************)
(* Submission (Spec).                                                      *)
(***************************************************************************)
\* C19: the collection grows only when a handleFiles call ends, and then by
\* the K items of its K files, appended after the items already there, in
\* input order, one per file whether its pipeline succeeded or failed; the
\* items already there keep their fields and their order; and every
\* handleFiles call that ends appends so.
C19_SubmitAppends ==
  [][/\ Len(queue') > Len(queue) =>
          \E k \in SubmitOps :
            /\ ops' = RemoveAt(ops, k)
            /\ Len(ops[k].items) > 0
            /\ queue' = queue \o ops[k].items
            /\ \A j \in 1..Len(ops[k].items) :
                 /\ ops[k].items[j] \notin Collection
                 /\ img'[ops[k].items[j]].file = ops[k].items[j]
                 /\ img'[ops[k].items[j]].error # None
                      \/ img'[ops[k].items[j]].processedUrl # 0
            /\ \A id \in Collection : img'[id] = img[id]
     /\ \A k \in SubmitOps :
          (Len(ops') < Len(ops) /\ ops' = RemoveAt(ops, k)) =>
            queue' = queue \o ops[k].items
     /\ Len(ops') > Len(ops) => queue' = queue]_vars

\* two files have been submitted and every handleFiles call has ended: the
\* first file failed, the second succeeded, and both are in the collection
\* in input order
C19_Witness ==
  /\ ops = <<>>
  /\ ~unloaded
  /\ queue = <<1, 2>>
  /\ img[1].error # None /\ img[1].purls = <<>>
  /\ img[2].error = None /\ img[2].purls = <<0>>

(***************************************************************************)
(* The outcomes of the probes (SpecDet).                                   *)
(***************************************************************************)
\* the other probed format
OtherProbe(f) == IF f = "avif" THEN "webp" ELSE "avif"

\* C20: a probe answers "yes" only on a blob of the type asked, and "no" on a
\* null blob, a blob of another type, an exception or a missing 2D context;
\* an answer settles the verdict of its own format and leaves the verdict of
\* the other format as it is; and once detectSupport has resolved, its record
\* has jpeg and png true and avif and webp as the two verdicts say, whatever
\* the outcomes were.
C20_ProbeFailureIsLocal ==
  /\ [](/\ \A f \in {"avif", "webp"} :
             \A outcome \in ProbeOutcomes(getMimeType(f)) :
               Verdict(getMimeType(f), outcome) =
                 (IF outcome = getMimeType(f) THEN "yes" ELSE "no")
        /\ CheckStart(FALSE) = "no"
        /\ det.detectionPromise \in {"null", "pending", "resolved"}
        /\ det.detectionPromise = "pending" =>
             det.avif = "pending" \/ det.webp = "pending"
        /\ det.detectionPromise = "resolved" =>
             /\ det.value = Some(FormatSupport(det.avif = "yes", det.webp = "yes"))
             /\ det.supportCache = det.value
             /\ det.value[1].jpeg /\ det.value[1].png
        /\ \A c \in Callers : Returned(c) =>
             callers[c].got[1].jpeg /\ callers[c].got[1].png)
  /\ [][\A f \in {"avif", "webp"} :
          (det[f] = "pending" /\ det'[f] # "pending") =>
            /\ det'[f] \in {"yes", "no"}
            /\ det'[OtherProbe(f)] = det[OtherProbe(f)]]_vars

\* the avif probe failed and the webp probe succeeded: detectSupport has
\* resolved and a caller holds the record with avif false and webp true
C20_Witness ==
  /\ det.detectionPromise = "resolved"
  /\ det.avif = "no" /\ det.webp = "yes"
  /\ \E c \in Callers :
       Returned(c) /\ callers[c].got = Some(FormatSupport(FALSE, TRUE))

(***************************************************************************)
(* The fallback record of an item (Spec).                                  *)
(***************************************************************************)
\* the operations a worker of which completes in this step
SteppedOps == {k \in 1..Len(ops) : Stepped(k)}

\* C21: when an attempt on an item completes, the item carries a fallback
\* record if and only if the attempt succeeded in a format other than the one
\* requested for it; the record then names the requested format and the
\* actual one; an item that succeeded in the requested format, and an item
\* whose attempt failed, carry none, whatever record an earlier attempt left.
C21_FallbackRecordIff ==
  [][\A k \in SteppedOps : \A id \in Completed(k) :
       LET after == img'[id]
           ok    == after.error = None
       IN /\ ~ok => after.usedFallback = Undefined
          /\ ok => /\ after.processedUrl # 0
                   /\ (after.usedFallback # Undefined) <=>
                        (after.resultFilename # getExtension(ops[k].format))
          /\ after.usedFallback # Undefined =>
               /\ after.usedFallback[1].requestedFormat = ops[k].format
               /\ after.usedFallback[1].actualFormat # ops[k].format
               /\ getExtension(after.usedFallback[1].actualFormat) =
                    after.resultFilename]_vars

\* an item that avif could not be produced for carries the record of its
\* substitution by jpeg, and another, whose latest attempt failed, carries
\* none
C21_Witness ==
  /\ ops = <<>>
  /\ Len(queue) = 2
  /\ \E id \in Collection :
       /\ img[id].error = None
       /\ img[id].usedFallback # Undefined
       /\ img[id].usedFallback[1].requestedFormat = "avif"
       /\ img[id].usedFallback[1].actualFormat = "jpeg"
  /\ \E id \in Collection :
       /\ img[id].error # None
       /\ img[id].processedUrl # 0
       /\ img[id].usedFallback = Undefined

(***************************************************************************)
(* The bound and the claims of mapWithConcurrency (SpecMap).               *)
(***************************************************************************)
\* C22: during a call, whatever the order in which the workers complete or
\* reject, the number of worker invocations started and not yet settled is
\* at most min(limit, items.length) (none at all when that is not positive).
C22_InFlightBounded ==
  /\ Cardinality(m.running) <= Max(0, Min(mLimit, Len(mItems)))
  /\ m.running \subseteq 0..(Len(mItems) - 1)

\* a call over more items than its limit of two or more has seen a worker
\* complete and has as many workers in flight as the limit allows
C22_Witness ==
  /\ m.state = "running"
  /\ mLimit >= 2
  /\ Len(mItems) > mLimit
  /\ mDone # <<>>
  /\ Cardinality(m.running) = mLimit

\* C23: for a list of N items and a limit of at least 1, the indices are
\* claimed in increasing order, each by one runner, and the worker is invoked
\* at most once per index at any moment of the call; a call that returns has
\* invoked it exactly once for every index 0..N-1, whatever the order in
\* which the workers completed.
C23_EachIndexOnce ==
  mLimit >= 1 =>
    /\ \A a, b \in 1..Len(m.invoked) : m.invoked[a] = m.invoked[b] => a = b
    /\ \A a \in 1..Len(m.invoked) : m.invoked[a] = a - 1
    /\ Len(m.invoked) <= Len(mItems)
    /\ Len(m.invoked) = Min(m.nextIndex, Len(mItems))
    /\ \A i \in m.running \cup DOMAIN m.results :
         \E a \in 1..Len(m.invoked) : m.invoked[a] = i
    /\ \A a \in 1..Len(mDone) : \A b \in 1..Len(mDone) : mDone[a] = mDone[b] => a = b
    /\ m.state = "resolved" =>
         /\ Len(m.invoked) = Len(mItems)
         /\ Len(mDone) = Len(mItems)
         /\ {mDone[a] : a \in 1..Len(mDone)} = 0..(Len(mItems) - 1)

\* a call over three items under a limit of two has returned, the worker of
\* the first item completing last
C23_Witness ==
  /\ m.state = "resolved"
  /\ Len(mItems) = 3
  /\ mLimit = 2
  /\ m.invoked = <<0, 1, 2>>
  /\ mDone[Len(mDone)] = 0

(***************************************************************************)
(* The encode requests of one encodeCanvas invocation (SpecEnc).           *)
(***************************************************************************)
\* the answer to the first request was a failure: null, an exception or a
\* blob of another type than the one asked
FirstAttemptFailed ==
  /\ Len(encOuts) >= 1
  /\ encOuts[1] # getMimeType(enc.reqs[1])

\* C24: one encodeCanvas invocation asks canvas.toBlob at most twice: once
\* for the selected format and, only when that attempt failed and the
\* selected format is not jpeg, once more for jpeg; with jpeg selected a
\* failure ends the invocation.
C24_AtMostTwoRequests ==
  enc.pc # "idle" =>
    /\ Len(enc.reqs) <= 2
    /\ enc.reqs[1] = "jpeg" => Len(enc.reqs) = 1
    /\ Len(enc.reqs) >= 2 => enc.reqs[2] = "jpeg" /\ FirstAttemptFailed

\* C25: every format one encodeCanvas invocation asks canvas.toBlob for is
\* marked supported by the snapshot it saw, and is either the format selected
\* before the first request or jpeg; when the requested format is
\* unsupported, the substitute and the fallback record naming the requested
\* format are already there while the first request is awaited.
C25_NoUnsupportedRequest ==
  enc.pc # "idle" =>
    /\ Len(enc.reqs) >= 1
    /\ \A j \in 1..Len(enc.reqs) :
         /\ encSupport[enc.reqs[j]]
         /\ j > 1 => enc.reqs[j] = "jpeg"
    /\ encSupport[enc.format] => enc.reqs[1] = enc.format
    /\ ~encSupport[enc.format] =>
         /\ enc.reqs[1] # enc.format
         /\ enc.reqs[1] = getBestFallbackFormat(encSupport, enc.format)
         /\ enc.pc = "enc1" =>
              /\ enc.actualFormat = enc.reqs[1]
              /\ enc.usedFallback # Undefined
              /\ enc.usedFallback[1].requestedFormat = enc.format
              /\ enc.usedFallback[1].reason =
                   Reason("unsupported", enc.format, enc.reqs[1])

\* webp was requested under a snapshot without it: the first request, still
\* awaited, is for jpeg and the fallback record is already written
C25_Witness ==
  /\ enc.pc = "enc1"
  /\ enc.format = "webp"
  /\ ~encSupport.webp
  /\ enc.reqs = <<"jpeg">>
  /\ encOuts = <<>>
  /\ enc.usedFallback # Undefined

(***************************************************************************)
(* reprocessAll against remove and submit (Spec).                          *)
(***************************************************************************)
\* the reprocessAll pass ops[k] ends with this step
PassEnds(k) == k \in AllOps /\ Len(ops') < Len(ops) /\ ops' = RemoveAt(ops, k)
\* how often the pass ops[k] has invoked the pipeline on id
TimesInvoked(k, id) ==
  Cardinality({a \in 1..Len(ops[k].invokedOn) : ops[k].invokedOn[a] = id})
\* the ids of a sequence
IdsOf(q) == {q[j] : j \in 1..Len(q)}

\* C26: when a reprocessAll pass ends, it has invoked the pipeline exactly
\* once on every item that was in the collection when it started and still
\* is, and on no item that was not in the collection when it started,
\* whatever removals and submissions took place meanwhile.
C26_PassCoversCollection ==
  [][\A k \in 1..Len(ops) : PassEnds(k) =>
       /\ \A id \in IdsOf(ops[k].atStart) \cap Collection' :
            TimesInvoked(k, id) = 1
       /\ \A id \in IdsOf(ops[k].invokedOn) : id \in IdsOf(ops[k].atStart)]_vars

(***************************************************************************)
(* The ledger of handles (Spec).                                           *)
(***************************************************************************)
\* the processed handles of an image that have not been released
Unreleased(image) == {j \in 1..Len(image.purls) : image.purls[j] = 0}
\* the processed handle an image refers to
Referenced(image) == IF image.processedUrl = 0 THEN {} ELSE {image.processedUrl}

\* C27: while the page is loaded no handle is released more than once, and
\* when no operation is in flight the unreleased handles are those of the
\* items of the collection: an item of the collection has its original
\* handle and the processed handle it refers to, and nothing else, unreleased;
\* an item no longer in the collection has none.
C27_HandlesBalanced ==
  ~unloaded =>
    \A id \in DOMAIN img :
      /\ img[id].originalRevoked <= 1
      /\ \A j \in 1..Len(img[id].purls) : img[id].purls[j] <= 1
      /\ (ops = <<>> /\ id \in Collection) =>
           /\ img[id].originalRevoked = 0
           /\ Unreleased(img[id]) = Referenced(img[id])
      /\ (ops = <<>> /\ id \notin Collection) =>
           /\ img[id].originalRevoked = 1
           /\ Unreleased(img[id]) = {}

(***************************************************************************)
(* The busy flag (FairSpec).                                               *)
(***************************************************************************)
\* C28: provided the host's decode and encode calls complete, a pass that has
\* taken the flag isReprocessing eventually clears it, whether its items
\* succeed or fail, so that no later call is shut out for ever; and the flag
\* is set only while a pass has a worker in flight.
C28_FlagEventuallyCleared ==
  /\ isReprocessing ~> ~isReprocessing
  /\ [](isReprocessing =>
          \E k \in ReprocessOps : DOMAIN ops[k].workers # {})

\* the flag is clear after a pass over two items, one of which it reprocessed
\* with success and the other with a failure
C28_Witness ==
  /\ ~isReprocessing
  /\ ops = <<>>
  /\ Len(queue) = 2
  /\ \E id \in Collection : img[id].purls = <<1, 0>> /\ img[id].error = None
  /\ \E id \in Collection : img[id].purls = <<0>> /\ img[id].error # None

(***************************************************************************)
(* The result file name and the archive (Spec).                            *)
(***************************************************************************)
\* the latest attempt on the image succeeded
Succeeded(image) == image.error = None /\ image.processedBlob # None

\* C29: the result file name of an item whose latest attempt succeeded ends
\* in the extension of a format whose media type is the declared type of the
\* stored artifact (jpg for image/jpeg, the format's name otherwise).
C29_ExtensionMatchesArtifact ==
  \A id \in DOMAIN img :
    Succeeded(img[id]) =>
      \E f \in OutputFormat :
        /\ getExtension(f) = img[id].resultFilename
        /\ getMimeType(f) = img[id].processedBlob

\* C30: while the page is loaded, the entries downloadAll packages are those
\* of the items of the collection whose most recent attempt succeeded: an
\* item whose most recent attempt failed contributes none.
C30_ArchiveIsSuccesses ==
  ~unloaded =>
    {e.item : e \in downloadAll(queue)} =
      {id \in Collection : img[id].error = None}

(***************************************************************************)
(* The pipelines in flight across the batch operations (Spec).             *)
(***************************************************************************)
\* the number of workers of ops[k] in flight
InFlightOf(k) == Cardinality(DOMAIN ops[k].workers)
\* the number of workers in flight in the operations 1..k
RECURSIVE InFlightUpTo(_)
InFlightUpTo(k) == IF k = 0 THEN 0 ELSE InFlightUpTo(k - 1) + InFlightOf(k)
\* the number of workers in flight in the application
TotalInFlight == InFlightUpTo(Len(ops))
\* DEFAULT_CONCURRENCY is between 1 and 6, here and for every hardware
ConcurrencyInRange ==
  /\ DEFAULT_CONCURRENCY(hw) \in 1..6
  /\ \A h \in 0..(MaxHW + 7) : DEFAULT_CONCURRENCY(h) \in 1..6

ListAgrees(list, support) ==
  /\ Len(list) = 4
  /\ [j \in 1..4 |-> list[j].format] = <<"webp", "jpeg", "png", "avif">>
  /\ \A j \in 1..4 :
       /\ list[j].supported = support[list[j].format]
       /\ (list[j].fallbackInfo # Undefined) <=> ~support[list[j].format]
       /\ list[j].fallbackInfo # Undefined =>
            list[j].fallbackInfo[1].format =
              getBestFallbackFormat(support, list[j].format)

\* C32: the list getFormatInfoList returns to a caller has the order webp,
\* jpeg, png, avif; each entry's supported flag is the value of the record
\* the caller's detectSupport returned; an entry carries fallback info if
\* and only if its format is unsupported, and the fallback advertised is
\* getBestFallbackFormat of that format under the same record; so it is for
\* the list of every snapshot.
C32_FormatInfoListAgrees ==
  /\ \A c \in Callers : Returned(c) =>
       /\ callers[c].list # Undefined
       /\ ListAgrees(callers[c].list[1], callers[c].got[1])
       /\ ListAgrees(callers[c].list[1], det.supportCache[1])
  /\ \A support \in Snapshots : ListAgrees(getFormatInfoList(support), support)

\* neither avif nor webp is supported: the list a caller holds advertises
\* jpeg as the fallback of both
C32_Witness ==
  \E c \in Callers :
    /\ Returned(c)
    /\ callers[c].got = Some(FormatSupport(FALSE, FALSE))
    /\ callers[c].list[1][1].fallbackInfo[1].format = "jpeg"
    /\ callers[c].list[1][4].fallbackInfo[1].format = "jpeg"
    /\ callers[c].list[1][2].fallbackInfo = Undefined

====
